---- MODULE Spec2Model ----
(***************************************************************************)
(* roop/core.py: run() = parse_args, pre_check, limit_resources, start().  *)
(* start() validates the inputs, then processes an image target once or a  *)
(* video target frame by frame, the frames being fanned out over a         *)
(* multiprocessing pool by conditional_process_video.                      *)
(*                                                                         *)
(* Calls into modules that are not part of core.py (roop.utilities,        *)
(* roop.swapper, roop.enhancer, opennsfw2, shutil) are recorded in the log *)
(* `calls` in the order the main process makes them; what they return is   *)
(* an input, drawn from a small set where the code reads it.               *)
(***************************************************************************)
EXTENDS Integers, Sequences, FiniteSets, TLC

VARIABLES
    pc,               \* position of the main process in run()/start()
    source_path,      \* roop.globals.source_path
    target_path,      \* roop.globals.target_path
    output_path,      \* roop.globals.output_path
    frame_processors, \* roop.globals.frame_processors
    headless,         \* roop.globals.headless
    keep_fps,         \* roop.globals.keep_fps
    keep_audio,       \* roop.globals.keep_audio
    cpu_cores,        \* roop.globals.cpu_cores
    gpu_vendor,       \* roop.globals.gpu_vendor
    providers,        \* roop.globals.providers
    env,              \* what pre_check read from the environment
    nsfw,             \* the scores predict_image / predict_video_frames returned
    calls,            \* external calls made by the main process, in order
    n_status,         \* number of update_status() messages emitted by start()
    temp_frame_paths, \* local of start(): get_temp_frame_paths(target_path)
    stage,            \* process_video argument of the running conditional_process_video
    pos,              \* loop variable i of conditional_process_video
    tasks,            \* slices handed to process_video by the current/last stage
    got,              \* number of pool.get() calls that have returned
    processed         \* per stage and frame: how often process_video ran on it

vars == <<pc, source_path, target_path, output_path, frame_processors, headless,
          keep_fps, keep_audio, cpu_cores, gpu_vendor, providers, env, nsfw,
          calls, n_status, temp_frame_paths, stage, pos, tasks, got, processed>>

cfgVars == <<source_path, target_path, output_path, frame_processors, headless,
             keep_fps, keep_audio, cpu_cores, gpu_vendor, providers>>

poolVars == <<temp_frame_paths, stage, pos, tasks, got, processed>>

(***************************************************************************)
(* Bounds of the model.                                                    *)
(***************************************************************************)
MaxFrames == 10   \* most frames extract_frames produces
MaxCores == 3     \* largest --cpu-cores

None == "None"

Min(a, b) == IF a < b THEN a ELSE b

(***************************************************************************)
(* The file system and the models, as far as start() asks about them.      *)
(***************************************************************************)
SourcePaths == {None, "missing.jpg", "noface.jpg", "face.jpg"}
TargetPaths == {None, "missing.mp4", "target.jpg", "target.mp4"}
OutputPaths == {None, "out"}

isfile(path) == path \in {"noface.jpg", "face.jpg", "target.jpg", "target.mp4"}

has_image_extension(path) == path \in {"target.jpg"}

get_one_face(path) == path = "face.jpg"

Truthy(path) == path # None

(***************************************************************************)
(* parse_args                                                              *)
(***************************************************************************)
FrameProcessorChoices == {{"face-swapper"}, {"face-enhancer"},
                          {"face-swapper", "face-enhancer"}}

ExecutionProviders == {"cpu", "directml"}

GpuVendorArgs == {None, "apple", "amd", "nvidia"}

\* roop.globals.providers before parse_args: the providers the runtime offers
InstalledProviders == {{"CPUExecutionProvider"},
                       {"CoreMLExecutionProvider", "CPUExecutionProvider"},
                       {"ROCMExecutionProvider", "CPUExecutionProvider"},
                       {"CUDAExecutionProvider", "CPUExecutionProvider"}}

\* action='store_true' with default=True: the flag cannot turn it off
KeepAudioArg(flag) == IF flag THEN TRUE ELSE TRUE

KeepFpsArg(flag) == IF flag THEN TRUE ELSE FALSE

ProvidersAfterArgs(execution_provider, vendor_arg, before) ==
    LET dml == IF execution_provider = "directml"
               THEN {"DmlExecutionProvider"} ELSE before
    IN  IF vendor_arg # None THEN dml ELSE {"CPUExecutionProvider"}

GpuVendorAfterArgs(execution_provider, vendor_arg, before) ==
    LET dml == IF execution_provider = "directml" THEN "other" ELSE before
    IN  IF vendor_arg # None THEN vendor_arg ELSE dml

parse_args ==
    /\ pc = "parse_args"
    /\ \E src \in SourcePaths, tgt \in TargetPaths, out \in OutputPaths,
          fp \in FrameProcessorChoices, fps \in BOOLEAN, audio \in BOOLEAN,
          cores \in 0..MaxCores, ep \in ExecutionProviders, gv \in GpuVendorArgs :
            /\ source_path' = src
            /\ target_path' = tgt
            /\ output_path' = out
            /\ frame_processors' = fp
            /\ headless' = (Truthy(src) \/ Truthy(tgt) \/ Truthy(out))
            /\ keep_fps' = KeepFpsArg(fps)
            /\ keep_audio' = KeepAudioArg(audio)
            /\ cpu_cores' = cores
            /\ providers' = ProvidersAfterArgs(ep, gv, providers)
            /\ gpu_vendor' = GpuVendorAfterArgs(ep, gv, gpu_vendor)
    /\ pc' = "pre_check"
    /\ UNCHANGED <<env, nsfw, calls, n_status, poolVars>>

(***************************************************************************)
(* pre_check                                                               *)
(***************************************************************************)
\* sys.version_info[:2]
PythonVersions == {<<2, 7>>, <<3, 8>>, <<3, 9>>, <<3, 10>>}

\* tuple comparison a < b
TupleLess(a, b) == a[1] < b[1] \/ (a[1] = b[1] /\ a[2] < b[2])

\* version strings as sequences of character codes ('.' = 46, '0' = 48)
Cuda_11_3 == <<49, 49, 46, 51>>
Cuda_11_4 == <<49, 49, 46, 52>>
Cuda_11_8 == <<49, 49, 46, 56>>
Cuda_12_1 == <<49, 50, 46, 49>>
CudaVersions == {Cuda_11_3, Cuda_11_4, Cuda_11_8, Cuda_12_1}

CudnnVersions == {8100, 8220, 8910, 9000}

\* str comparison a < b
RECURSIVE StrLess(_, _)
StrLess(a, b) ==
    IF b = <<>> THEN FALSE
    ELSE IF a = <<>> THEN TRUE
    ELSE IF Head(a) # Head(b) THEN Head(a) < Head(b)
    ELSE StrLess(Tail(a), Tail(b))

Unread == "unread"

CudaEnvs == [available : BOOLEAN, version : CudaVersions, cudnn : CudnnVersions]

\* what pre_check can find in the environment; torch is asked only for nvidia
Envs(vendor) ==
    [python : PythonVersions, ffmpeg : BOOLEAN,
     cuda : IF vendor = "nvidia" THEN CudaEnvs ELSE {Unread}]

NvidiaMessage(c) ==
    IF ~c.available THEN "CUDA is not available"
    ELSE IF StrLess(Cuda_11_8, c.version) THEN "CUDA version: please downgrade"
    ELSE IF StrLess(c.version, Cuda_11_4) THEN "CUDA version: please upgrade"
    ELSE IF c.cudnn < 8220 THEN "CUDNN version: please upgrade"
    ELSE IF c.cudnn > 8910 THEN "CUDNN version: please downgrade"
    ELSE None

\* pre_check without the ffmpeg test
PreCheckMessage_NoFfmpeg(e, vendor, provs) ==
    IF TupleLess(e.python, <<3, 9>>) THEN "Python version is not supported"
    ELSE IF vendor = "apple" /\ "CoreMLExecutionProvider" \notin provs
         THEN "CoreML is not available"
    ELSE IF vendor = "amd" /\ "ROCMExecutionProvider" \notin provs
         THEN "ROCM is not available"
    ELSE IF vendor = "nvidia" THEN NvidiaMessage(e.cuda)
    ELSE None

\* the message of the first quit() pre_check reaches, None when it returns
PreCheckMessage(e, vendor, provs) ==
    IF TupleLess(e.python, <<3, 9>>) THEN "Python version is not supported"
    ELSE IF ~e.ffmpeg THEN "ffmpeg is not installed!"
    ELSE IF vendor = "apple" /\ "CoreMLExecutionProvider" \notin provs
         THEN "CoreML is not available"
    ELSE IF vendor = "amd" /\ "ROCMExecutionProvider" \notin provs
         THEN "ROCM is not available"
    ELSE IF vendor = "nvidia" THEN NvidiaMessage(e.cuda)
    ELSE None

pre_check ==
    /\ pc = "pre_check"
    /\ \E e \in Envs(gpu_vendor) :
        /\ env' = e
        /\ IF PreCheckMessage(e, gpu_vendor, providers) # None
           THEN /\ pc' = "exit"
                /\ calls' = Append(calls, "quit")
           ELSE /\ pc' = "limit_resources"
                /\ calls' = calls
    /\ UNCHANGED <<cfgVars, nsfw, n_status, poolVars>>

(***************************************************************************)
(* run: roop.swapper.pre_check, limit_resources, then start() or the UI    *)
(* Without a path on the command line run() opens the window of roop.ui    *)
(* and stays in its mainloop ("ui"), which only destroy() leaves.          *)
(***************************************************************************)
limit_resources ==
    /\ pc = "limit_resources"
    /\ calls' = calls \o (IF "face-swapper" \in frame_processors
                          THEN <<"swapper.pre_check">> ELSE <<>>)
                      \o <<"limit_resources">>
    /\ pc' = IF headless THEN "start" ELSE "ui"
    /\ UNCHANGED <<cfgVars, env, nsfw, n_status, poolVars>>

(***************************************************************************)
(* destroy, also the SIGINT handler installed by parse_args                *)
(***************************************************************************)
DestroyCalls(target) ==
    (IF Truthy(target) THEN <<"clean_temp">> ELSE <<>>) \o <<"quit">>

Running == pc \notin {"parse_args", "exit", "returned", "error"}

sigint ==
    /\ Running
    /\ calls' = calls \o DestroyCalls(target_path)
    /\ pc' = "exit"
    /\ UNCHANGED <<cfgVars, env, nsfw, n_status, poolVars>>

(***************************************************************************)
(* start: input validation, lines 176-186                                  *)
(***************************************************************************)
SourceInvalid(path) == ~Truthy(path) \/ ~isfile(path)

TargetInvalid(path) == ~Truthy(path) \/ ~isfile(path)

\* validation without the face test
InputRejected_NoFaceTest(src, tgt) == SourceInvalid(src) \/ TargetInvalid(tgt)

InputRejected(src, tgt) ==
    SourceInvalid(src) \/ TargetInvalid(tgt) \/ ~get_one_face(src)

start_validate ==
    /\ pc = "start"
    /\ IF InputRejected(source_path, target_path)
       THEN /\ n_status' = n_status + 1
            /\ calls' = calls
            /\ pc' = "returned"
       ELSE /\ n_status' = n_status
            /\ calls' = Append(calls, "create_temp")
            /\ pc' = IF has_image_extension(target_path)
                     THEN "predict_image" ELSE "predict_video_frames"
    /\ UNCHANGED <<cfgVars, env, nsfw, poolVars>>

(***************************************************************************)
(* start: image target, lines 189-205                                      *)
(***************************************************************************)
\* NSFW probabilities in hundredths
Scores == {84, 85, 86}

NsfwLimit == 85

\* the gate with >= in place of >
NsfwBlocked_Inclusive(probabilities) ==
    \E k \in 1..Len(probabilities) : probabilities[k] >= NsfwLimit

NsfwBlocked(probabilities) ==
    \E k \in 1..Len(probabilities) : probabilities[k] > NsfwLimit

predict_image ==
    /\ pc = "predict_image"
    /\ \E score \in Scores :
        /\ nsfw' = <<score>>
        /\ IF NsfwBlocked(<<score>>)
           THEN /\ calls' = calls \o DestroyCalls(target_path)
                /\ pc' = "exit"
           ELSE /\ calls' = calls
                /\ pc' = "process_image"
    /\ UNCHANGED <<cfgVars, env, n_status, poolVars>>

SwapperRuns(procs) == "face-swapper" \in procs

\* the enhancer without the nvidia condition
EnhancerRuns_AnyVendor(vendor, procs) == "face-enhancer" \in procs

EnhancerRuns(vendor, procs) == vendor = "nvidia" /\ "face-enhancer" \in procs

\* shutil.move(temp_image_path, None) raises TypeError
process_image ==
    /\ pc = "process_image"
    /\ LET swap == SwapperRuns(frame_processors)
           enh == EnhancerRuns(gpu_vendor, frame_processors)
           work == <<"copy_temp_image">>
                   \o (IF swap THEN <<"swapper.process_image">> ELSE <<>>)
                   \o (IF enh THEN <<"enhancer.process_image">> ELSE <<>>)
           n == (IF swap THEN 1 ELSE 0) + (IF enh THEN 1 ELSE 0)
       IN  IF Truthy(output_path)
           THEN /\ calls' = calls \o work \o <<"shutil.move">>
                /\ n_status' = n_status + n + 1
                /\ pc' = "returned"
           ELSE /\ calls' = calls \o work
                /\ n_status' = n_status + n
                /\ pc' = "error"
    /\ UNCHANGED <<cfgVars, env, nsfw, poolVars>>

(***************************************************************************)
(* start: video target, lines 207-214                                      *)
(***************************************************************************)
\* what predict_video_frames can return for the sampled frames
ProbabilityLists == {<<84>>, <<84, 85>>, <<86>>, <<85, 86>>, <<86, 84>>}

predict_video_frames ==
    /\ pc = "predict_video_frames"
    /\ \E probabilities \in ProbabilityLists :
        /\ nsfw' = probabilities
        /\ IF NsfwBlocked(probabilities)
           THEN /\ calls' = calls \o DestroyCalls(target_path)
                /\ pc' = "exit"
           ELSE /\ calls' = calls
                /\ pc' = "extract_frames"
    /\ UNCHANGED <<cfgVars, env, n_status, poolVars>>

Stages == {"swap", "enhance"}

extract_frames ==
    /\ pc = "extract_frames"
    /\ n_status' = n_status + 2
    /\ calls' = calls \o <<"create_temp", "extract_frames">>
    /\ \E n \in 0..MaxFrames :
        /\ temp_frame_paths' = [i \in 1..n |-> i]
        /\ processed' = [s \in Stages |-> [f \in 1..n |-> 0]]
    /\ pc' = "swap"
    /\ UNCHANGED <<cfgVars, env, nsfw, stage, pos, tasks, got>>

(***************************************************************************)
(* conditional_process_video, lines 150-163                                *)
(***************************************************************************)
\* the chunk size rounded up instead of down
pool_amount_RoundUp(n, cores) == (n + cores - 1) \div cores

\* len(temp_frame_paths) // roop.globals.cpu_cores, cpu_cores # 0
pool_amount(n, cores) == n \div cores

\* the pool condition without the gpu_vendor test
UsePool_AnyVendor(n, cores, vendor) == pool_amount(n, cores) > 2 /\ cores > 1

UsePool(n, cores, vendor) ==
    pool_amount(n, cores) > 2 /\ cores > 1 /\ vendor = None

\* the slice one frame short: temp_frame_paths[i:i + pool_amount - 1]
Slice_Short(paths, i, k) == SubSeq(paths, i + 1, Min(i + k - 1, Len(paths)))

\* temp_frame_paths[i:i + pool_amount]
Slice(paths, i, k) == SubSeq(paths, i + 1, Min(i + k, Len(paths)))

AfterStage(s) == IF s = "swap" THEN "enhance" ELSE "create_video"

\* process_video has run on every frame of the slice
Process(s, frames) ==
    [processed EXCEPT ![s] =
        [f \in DOMAIN processed[s] |->
            processed[s][f] + Cardinality({k \in 1..Len(frames) : frames[k] = f})]]

\* the call conditional_process_video(source_path, temp_frame_paths, process_video):
\* line 151 divides by cpu_cores; the else branch runs process_video in the
\* main process, which returns or raises
EnterStage(s) ==
    IF cpu_cores = 0
    THEN /\ pc' = "error"
         /\ UNCHANGED <<stage, pos, tasks, got, processed>>
    ELSE IF UsePool(Len(temp_frame_paths), cpu_cores, gpu_vendor)
    THEN /\ pc' = "submit"
         /\ stage' = s
         /\ pos' = 0
         /\ tasks' = <<>>
         /\ got' = 0
         /\ UNCHANGED processed
    ELSE \E ok \in BOOLEAN :
         /\ stage' = s
         /\ tasks' = <<[frames |-> temp_frame_paths, mode |-> "gpu",
                        st |-> IF ok THEN "done" ELSE "failed"]>>
         /\ processed' = IF ok THEN Process(s, temp_frame_paths) ELSE processed
         /\ pc' = IF ok THEN AfterStage(s) ELSE "error"
         /\ UNCHANGED <<pos, got>>

\* lines 215-217
swap_stage ==
    /\ pc = "swap"
    /\ IF SwapperRuns(frame_processors)
       THEN /\ n_status' = n_status + 1
            /\ calls' = Append(calls, "conditional_process_video(swapper)")
            /\ EnterStage("swap")
       ELSE /\ pc' = "enhance"
            /\ UNCHANGED <<n_status, calls, stage, pos, tasks, got, processed>>
    /\ UNCHANGED <<cfgVars, env, nsfw, temp_frame_paths>>

\* lines 218-223
enhance_stage ==
    /\ pc = "enhance"
    /\ IF EnhancerRuns(gpu_vendor, frame_processors)
       THEN /\ n_status' = n_status + 1
            /\ calls' = Append(calls, "conditional_process_video(enhancer)")
            /\ EnterStage("enhance")
       ELSE /\ pc' = "create_video"
            /\ UNCHANGED <<n_status, calls, stage, pos, tasks, got, processed>>
    /\ UNCHANGED <<cfgVars, env, nsfw, temp_frame_paths>>

\* one iteration of the for loop of lines 155-157
apply_async ==
    /\ pc = "submit"
    /\ pos < Len(temp_frame_paths)
    /\ LET k == pool_amount(Len(temp_frame_paths), cpu_cores)
       IN  /\ tasks' = Append(tasks, [frames |-> Slice(temp_frame_paths, pos, k),
                                      mode |-> "cpu", st |-> "pending"])
           /\ pos' = pos + k
    /\ UNCHANGED <<pc, cfgVars, env, nsfw, calls, n_status, temp_frame_paths,
                   stage, got, processed>>

\* the range of line 155 is exhausted
submitted ==
    /\ pc = "submit"
    /\ pos >= Len(temp_frame_paths)
    /\ pc' = "get"
    /\ UNCHANGED <<cfgVars, env, nsfw, calls, n_status, poolVars>>

PoolAlive == pc \in {"submit", "get"}

NumRunning == Cardinality({k \in 1..Len(tasks) : tasks[k].st = "running"})

Pending == {k \in 1..Len(tasks) : tasks[k].st = "pending"}

\* a free worker of Pool(cpu_cores) takes the oldest queued task
worker_start ==
    /\ PoolAlive
    /\ Pending # {}
    /\ NumRunning < cpu_cores
    /\ LET k == CHOOSE j \in Pending : \A m \in Pending : j <= m
       IN  tasks' = [tasks EXCEPT ![k].st = "running"]
    /\ UNCHANGED <<pc, cfgVars, env, nsfw, calls, n_status, temp_frame_paths,
                   stage, pos, got, processed>>

\* process_video returns in a worker
worker_finish ==
    /\ PoolAlive
    /\ \E k \in 1..Len(tasks) :
        /\ tasks[k].st = "running"
        /\ tasks' = [tasks EXCEPT ![k].st = "done"]
        /\ processed' = Process(stage, tasks[k].frames)
    /\ UNCHANGED <<pc, cfgVars, env, nsfw, calls, n_status, temp_frame_paths,
                   stage, pos, got>>

\* process_video raises in a worker
worker_fail ==
    /\ PoolAlive
    /\ \E k \in 1..Len(tasks) :
        /\ tasks[k].st = "running"
        /\ tasks' = [tasks EXCEPT ![k].st = "failed"]
    /\ UNCHANGED <<pc, cfgVars, env, nsfw, calls, n_status, temp_frame_paths,
                   stage, pos, got, processed>>

\* pool.get() of lines 158-159: returns the result of a finished task, or
\* raises what the task raised
pool_get ==
    /\ pc = "get"
    /\ got < Len(tasks)
    /\ tasks[got + 1].st \in {"done", "failed"}
    /\ IF tasks[got + 1].st = "done"
       THEN /\ got' = got + 1
            /\ pc' = pc
       ELSE /\ got' = got
            /\ pc' = "error"
    /\ UNCHANGED <<cfgVars, env, nsfw, calls, n_status, temp_frame_paths,
                   stage, pos, tasks, processed>>

\* the parent not waiting for the results
ParentMayReturn_NoWait(ts, g) == TRUE

\* lines 158-161: every pool.get() has returned and POOL.join() found the
\* workers gone
ParentMayReturn(ts, g) ==
    /\ g = Len(ts)
    /\ \A k \in 1..Len(ts) : ts[k].st \notin {"pending", "running"}

close_join ==
    /\ pc = "get"
    /\ ParentMayReturn(tasks, got)
    /\ pc' = AfterStage(stage)
    /\ UNCHANGED <<cfgVars, env, nsfw, calls, n_status, poolVars>>

(***************************************************************************)
(* start: reassembly and clean-up, lines 225-247                           *)
(***************************************************************************)
create_video ==
    /\ pc = "create_video"
    /\ IF keep_fps
       THEN /\ n_status' = n_status + 2
            /\ calls' = calls \o <<"detect_fps", "create_video">>
       ELSE /\ n_status' = n_status + 1
            /\ calls' = Append(calls, "create_video")
    /\ pc' = "audio"
    /\ UNCHANGED <<cfgVars, env, nsfw, poolVars>>

\* the temp directory cleaned before the output is written
restore_audio_CleansFirst ==
    /\ pc = "audio"
    /\ n_status' = n_status + 1
    /\ calls' = calls \o <<"clean_temp", "restore_audio">>
    /\ pc' = "clean"
    /\ UNCHANGED <<cfgVars, env, nsfw, poolVars>>

restore_audio ==
    /\ pc = "audio"
    /\ IF keep_audio
       THEN /\ n_status' = n_status + 1
            /\ calls' = Append(calls, "restore_audio")
       ELSE /\ n_status' = n_status
            /\ calls' = Append(calls, "move_temp")
    /\ pc' = "clean"
    /\ UNCHANGED <<cfgVars, env, nsfw, poolVars>>

finish ==
    /\ pc = "clean"
    /\ n_status' = n_status + 1
    /\ calls' = calls \o <<"clean_temp", "clean_temp">>
    /\ pc' = "returned"
    /\ UNCHANGED <<cfgVars, env, nsfw, poolVars>>

(***************************************************************************)
(* The program                                                             *)
(***************************************************************************)
Init ==
    /\ pc = "parse_args"
    /\ source_path = None
    /\ target_path = None
    /\ output_path = None
    /\ frame_processors = {}
    /\ headless = FALSE
    /\ keep_fps = FALSE
    /\ keep_audio = FALSE
    /\ cpu_cores = 0
    /\ gpu_vendor = None
    /\ providers \in InstalledProviders
    /\ env = [python |-> <<0, 0>>, ffmpeg |-> FALSE, cuda |-> Unread]
    /\ nsfw = <<>>
    /\ calls = <<>>
    /\ n_status = 0
    /\ temp_frame_paths = <<>>
    /\ stage = None
    /\ pos = 0
    /\ tasks = <<>>
    /\ got = 0
    /\ processed = [s \in Stages |-> <<>>]

Next ==
    \/ parse_args
    \/ pre_check
    \/ limit_resources
    \/ sigint
    \/ start_validate
    \/ predict_image
    \/ process_image
    \/ predict_video_frames
    \/ extract_frames
    \/ swap_stage
    \/ enhance_stage
    \/ apply_async
    \/ submitted
    \/ worker_start
    \/ worker_finish
    \/ worker_fail
    \/ pool_get
    \/ close_join
    \/ create_video
    \/ restore_audio
    \/ finish

Spec == Init /\ [][Next]_vars

(***************************************************************************)
(* Vocabulary of the properties                                            *)
(***************************************************************************)
Has(c) == \E i \in 1..Len(calls) : calls[i] = c

Opt(cond, c) == IF cond THEN <<c>> ELSE <<>>

IsStartCall(c) == c \notin {"swapper.pre_check", "limit_resources"}

\* the calls start() has made
StartCalls == SelectSeq(calls, IsStartCall)

Frames == 1..Len(temp_frame_paths)

\* start() has returned from the video branch
CompletedVideo == pc = "returned" /\ Has("create_video")

RECURSIVE ConcatFrames(_)
ConcatFrames(ts) ==
    IF ts = <<>> THEN <<>> ELSE Head(ts).frames \o ConcatFrames(Tail(ts))

\* the current conditional_process_video call took the pool path
PoolPath == stage # None /\ (tasks = <<>> \/ tasks[1].mode = "cpu")

\* ... and its for loop has submitted everything
PoolSubmitted == PoolPath /\ pos >= Len(temp_frame_paths)

SinglePath == stage # None /\ tasks # <<>> /\ tasks[1].mode = "gpu"

PastSwap == {"enhance", "create_video", "audio", "clean", "returned"}

PastEnhance == {"create_video", "audio", "clean", "returned"}

SwapReturned ==
    /\ Has("conditional_process_video(swapper)")
    /\ pc \in PastSwap \/ Has("conditional_process_video(enhancer)")

EnhanceReturned ==
    /\ Has("conditional_process_video(enhancer)")
    /\ pc \in PastEnhance

FrameStep(s) ==
    \E f \in DOMAIN processed[s] : processed'[s][f] > processed[s][f]

EnoughToSplit ==
    cpu_cores > 1 /\ Len(temp_frame_paths) \div cpu_cores >= 3

(***************************************************************************)
(* C1: a video run that completes has made its calls in the order          *)
(* create_temp, extract_frames, swap stage, enhance stage, create_video,   *)
(* restore_audio (move_temp without keep_audio), clean_temp; frames are    *)
(* processed only between extract_frames and create_video, the swap stage  *)
(* wholly before the enhance stage.                                        *)
(***************************************************************************)
C1_ExpectedCalls ==
    <<"create_temp", "create_temp", "extract_frames">>
    \o Opt("face-swapper" \in frame_processors,
           "conditional_process_video(swapper)")
    \o Opt(Has("conditional_process_video(enhancer)"),
           "conditional_process_video(enhancer)")
    \o Opt(keep_fps, "detect_fps")
    \o <<"create_video">>
    \o <<IF keep_audio THEN "restore_audio" ELSE "move_temp">>
    \o <<"clean_temp", "clean_temp">>

C1_StageOrder ==
    /\ [](CompletedVideo => StartCalls = C1_ExpectedCalls)
    /\ [][(FrameStep("swap") \/ FrameStep("enhance"))
            => Has("extract_frames") /\ ~Has("create_video")]_vars
    /\ [][FrameStep("swap")
            => ~Has("conditional_process_video(enhancer)")]_vars
    /\ [][FrameStep("enhance")
            => (Has("conditional_process_video(swapper)")
                  => \A f \in Frames : processed["swap"][f] = 1)]_vars

C1_Witness ==
    /\ CompletedVideo
    /\ Len(temp_frame_paths) >= 2
    /\ \A f \in Frames : processed["swap"][f] = 1 /\ processed["enhance"][f] = 1

(***************************************************************************)
(* C2: with cpu_cores >= 1, one conditional_process_video call hands every *)
(* frame to process_video exactly once: the pool slices are non-empty and  *)
(* concatenate to the frame list, the single-process call gets the whole   *)
(* list, and after the call every frame has been processed once.           *)
(***************************************************************************)
C2_EveryFrameOnce ==
    /\ PoolSubmitted =>
          /\ ConcatFrames(tasks) = temp_frame_paths
          /\ \A k \in 1..Len(tasks) : tasks[k].frames # <<>>
    /\ SinglePath =>
          /\ Len(tasks) = 1
          /\ tasks[1].frames = temp_frame_paths
    /\ SwapReturned => \A f \in Frames : processed["swap"][f] = 1
    /\ EnhanceReturned => \A f \in Frames : processed["enhance"][f] = 1

C2_Witness ==
    /\ pc = "create_video"
    /\ PoolSubmitted
    /\ Len(tasks) = 4
    /\ Len(tasks[4].frames) < Len(tasks[1].frames)

(***************************************************************************)
(* C3: the main process goes on to the enhance stage, and to create_video, *)
(* only when every slice of the stage before has finished.                 *)
(***************************************************************************)
C3_ParentBlocks ==
    pc \in PastSwap => \A k \in 1..Len(tasks) : tasks[k].st = "done"

C3_Witness ==
    /\ pc = "enhance"
    /\ PoolSubmitted
    /\ Len(tasks) >= 3

(***************************************************************************)
(* C4 as stated: the pool path submits exactly cpu_cores slices.           *)
(***************************************************************************)
C4_Original == PoolSubmitted => Len(tasks) = cpu_cores

(***************************************************************************)
(* C4 amended: the pool path cuts slices of len // cpu_cores frames, the   *)
(* last one possibly shorter; their number is len divided by that size,    *)
(* rounded up: cpu_cores when cpu_cores divides len, more otherwise.       *)
(***************************************************************************)
C4_ChunkCount ==
    PoolSubmitted =>
      LET n == Len(temp_frame_paths)
          q == n \div cpu_cores
      IN  /\ Len(tasks) = (n + q - 1) \div q
          /\ \A k \in 1..(Len(tasks) - 1) : Len(tasks[k].frames) = q
          /\ Len(tasks) >= cpu_cores
          /\ Len(tasks) = cpu_cores <=> n % cpu_cores = 0

C4_Witness ==
    /\ PoolSubmitted
    /\ Len(tasks) > cpu_cores

(***************************************************************************)
(* C5 as stated: with cpu_cores > 1 and at least 3 frames per core, every  *)
(* stage that runs is fanned out over the pool.                            *)
(***************************************************************************)
C5_Original == stage # None /\ EnoughToSplit => PoolPath

(***************************************************************************)
(* C5 amended: with cpu_cores > 1 and at least 3 frames per core, a stage  *)
(* is fanned out over the pool exactly when gpu_vendor is unset; the       *)
(* enhance stage, which needs gpu_vendor = nvidia, always runs in the main *)
(* process.                                                                *)
(***************************************************************************)
C5_PoolOnlyWithoutGpu ==
    /\ stage # None /\ EnoughToSplit => (PoolPath <=> gpu_vendor = None)
    /\ stage # None /\ ~EnoughToSplit => SinglePath
    /\ stage = "enhance" => SinglePath

C5_Witness ==
    /\ stage = "enhance"
    /\ EnoughToSplit
    /\ SinglePath
    /\ pc = "create_video"

(***************************************************************************)
(* C6 as stated: when create_video starts, every selected frame processor  *)
(* has been applied to every frame, whatever gpu_vendor is.                *)
(***************************************************************************)
C6_Original ==
    pc \in PastEnhance =>
      /\ "face-swapper" \in frame_processors
            => \A f \in Frames : processed["swap"][f] >= 1
      /\ "face-enhancer" \in frame_processors
            => \A f \in Frames : processed["enhance"][f] >= 1

(***************************************************************************)
(* C6 amended: when create_video starts, the face-swapper, if selected,    *)
(* has been applied once to every frame; the face-enhancer has been        *)
(* applied once to every frame if it is selected and gpu_vendor is nvidia, *)
(* and to no frame otherwise.                                              *)
(***************************************************************************)
C6_ProcessorsApplied ==
    pc \in PastEnhance =>
      /\ \A f \in Frames :
            processed["swap"][f] =
                IF "face-swapper" \in frame_processors THEN 1 ELSE 0
      /\ \A f \in Frames :
            processed["enhance"][f] =
                IF "face-enhancer" \in frame_processors /\ gpu_vendor = "nvidia"
                THEN 1 ELSE 0

C6_Witness ==
    /\ pc = "returned"
    /\ frame_processors = {"face-swapper", "face-enhancer"}
    /\ gpu_vendor = None
    /\ Len(temp_frame_paths) >= 2
    /\ \A f \in Frames : processed["swap"][f] = 1 /\ processed["enhance"][f] = 0

(***************************************************************************)
(* C7: when pre_check has found an old Python, no ffmpeg or the requested  *)
(* accelerator missing, the process has exited with nothing else done.     *)
(***************************************************************************)
EnvRead == env.python # <<0, 0>>

EnvFailure ==
    \/ env.python[1] < 3
    \/ env.python[1] = 3 /\ env.python[2] < 9
    \/ ~env.ffmpeg
    \/ gpu_vendor = "apple" /\ "CoreMLExecutionProvider" \notin providers
    \/ gpu_vendor = "amd" /\ "ROCMExecutionProvider" \notin providers
    \/ gpu_vendor = "nvidia" /\ ~env.cuda.available

C7_EnvFailureExits ==
    EnvRead /\ EnvFailure =>
      /\ pc = "exit"
      /\ calls = <<"quit">>
      /\ n_status = 0
      /\ tasks = <<>>
      /\ temp_frame_paths = <<>>

C7_Witness ==
    /\ EnvRead
    /\ env.python = <<3, 9>>
    /\ ~env.ffmpeg
    /\ pc = "exit"
    /\ target_path = "target.mp4"

(***************************************************************************)
(* C8: a score above 0.85 makes start() clean the temp resources and exit  *)
(* with nothing swapped, enhanced, extracted or written; scores up to 0.85 *)
(* let start() go on.                                                      *)
(***************************************************************************)
Above085(probabilities) ==
    \E k \in 1..Len(probabilities) : probabilities[k] > 85

C8_NsfwGate ==
    /\ [](Above085(nsfw) =>
            /\ pc = "exit"
            /\ StartCalls = <<"create_temp", "clean_temp", "quit">>
            /\ tasks = <<>>
            /\ temp_frame_paths = <<>>)
    /\ [][nsfw' # nsfw /\ ~Above085(nsfw') =>
            /\ pc' \in {"process_image", "extract_frames"}
            /\ calls' = calls]_vars

C8_Witness ==
    /\ nsfw = <<85, 86>>
    /\ pc = "exit"

(***************************************************************************)
(* C9: with the source or the target unset or not a file, or no face in    *)
(* the source, start() emits one status message and returns; create_temp   *)
(* is not called, nothing is processed, nothing is written.                *)
(***************************************************************************)
InvalidInput ==
    \/ source_path = None
    \/ ~isfile(source_path)
    \/ target_path = None
    \/ ~isfile(target_path)
    \/ source_path = "noface.jpg"

C9_ValidationReturns ==
    /\ [](pc # "parse_args" /\ InvalidInput =>
            /\ pc \in {"pre_check", "limit_resources", "start", "ui",
                       "returned", "exit"}
            /\ n_status = IF pc = "returned" THEN 1 ELSE 0
            /\ StartCalls \in {<<>>, <<"quit">>, <<"clean_temp", "quit">>}
            /\ pc = "returned" => StartCalls = <<>>
            /\ tasks = <<>>
            /\ temp_frame_paths = <<>>)
    /\ [][pc = "start" /\ InvalidInput /\ pc' # "exit" =>
            /\ pc' = "returned"
            /\ UNCHANGED <<cfgVars, calls, poolVars>>]_vars

C9_Witness ==
    /\ pc = "returned"
    /\ source_path = "noface.jpg"
    /\ target_path = "target.mp4"
    /\ n_status = 1

(***************************************************************************)
(* C10: no run of start() ends with create_temp called and clean_temp not  *)
(* called after it.                                                        *)
(***************************************************************************)
TempPending ==
    \E i \in 1..Len(calls) :
        /\ calls[i] = "create_temp"
        /\ \A j \in (i + 1)..Len(calls) : calls[j] # "clean_temp"

C10_TempCleaned == pc \in {"returned", "exit"} => ~TempPending

====
